---------------------------- MODULE Spec2Model ----------------------------
(***************************************************************************)
(* Model of the crime dashboard backend: backend/app/routes.py (the HTTP   *)
(* handlers, the lazily loaded dataset cache, the JSON encoder) and        *)
(* backend/app/analytics.py (the trend engine and its fallback cascade).   *)
(*                                                                         *)
(* A dataset (a pandas DataFrame) is a bag of rows: a function from the    *)
(* distinct rows it holds to how many times each occurs (always >= 1).     *)
(* A row is a record [type, year, month, day, district].  Strings that the *)
(* code parses or case-folds are sequences of one-character strings.       *)
(* A float is a pair <<n, d>>: the rational n/d in lowest terms with       *)
(* d > 0, or, with d = 0, one of the IEEE specials <<0,0>> (NaN),          *)
(* <<1,0>> (+Infinity), <<-1,0>> (-Infinity).  Rounding of binary floats   *)
(* is not modelled.                                                        *)
(***************************************************************************)
EXTENDS Integers, Sequences, FiniteSets, TLC

\* ------------------------------------------------------------------ bounds
\* Largest number of rows of a dataset handed to the trend engine.
MaxRows == 8
\* np.random.uniform(-a, a) is drawn from {k * a / JitterSteps : k \in -JitterSteps..JitterSteps}.
JitterSteps == 1
\* Concurrent request threads of the server.
NumThreads == 2
\* Largest number of rows of a dataset whose 'Date' column does not parse.
MaxUnparsedRows == 2
\* Largest number of rows of the small files behind the routes.
MaxApiRows == 2

\* -------------------------------------------------------- program constants
SignificanceFloor == 5
TopN == 5
ResponseCapHi == 40
ResponseCapLo == -40
EncoderCapHi == 40
EncoderCapLo == -40
Tier2Cap == 50
EmergenceCap == 100
EmergenceFactor == 10
MinTypesForRecency == 10
SynthHighBase == 15
SynthLowBase == -5
SynthStep == 2
LinspaceHighStart == 20
LinspaceHighStop == 5
LinspaceLowStart == -5
LinspaceLowStop == -20
RecencyCap == 40
RecencyFactor == 20
ClusterMinRows == 100
PredictionMinRows == 100
PredictionSample == 10000
RecordCap == 5000

\* ------------------------------------------------------------------ floats
NaN == <<0, 0>>
PosInf == <<1, 0>>
NegInf == <<-1, 0>>

Abs(i) == IF i < 0 THEN -i ELSE i

RECURSIVE GCD(_, _)
GCD(a, b) == IF b = 0 THEN a ELSE GCD(b, a % b)

\* The float n/d (d # 0) in lowest terms with a positive denominator.
Rat(n, d) ==
    LET g == GCD(Abs(n), Abs(d))
        s == IF d < 0 THEN -1 ELSE 1
    IN  <<(s * n) \div g, (s * d) \div g>>

Int2F(i) == <<i, 1>>
IsNaN(x) == x = NaN
IsInf(x) == x = PosInf \/ x = NegInf
IsFinite(x) == x[2] # 0

\* IEEE comparisons: every comparison with NaN is false.
FLt(x, y) ==
    /\ ~IsNaN(x) /\ ~IsNaN(y)
    /\ IF IsFinite(x) /\ IsFinite(y) THEN x[1] * y[2] < y[1] * x[2]
       ELSE IF IsFinite(x) THEN y = PosInf
       ELSE IF IsFinite(y) THEN x = NegInf
       ELSE x = NegInf /\ y = PosInf
FGt(x, y) == FLt(y, x)
FLe(x, y) == ~IsNaN(x) /\ ~IsNaN(y) /\ ~FLt(y, x)
FGe(x, y) == FLe(y, x)

\* Arithmetic; NaN and the infinities propagate as IEEE has them.
FNeg(x) == <<-x[1], x[2]>>
FAbs(x) == <<Abs(x[1]), x[2]>>
FAdd(x, y) ==
    IF IsFinite(x) /\ IsFinite(y) THEN Rat(x[1] * y[2] + y[1] * x[2], x[2] * y[2])
    ELSE IF IsNaN(x) \/ IsNaN(y) \/ (IsInf(x) /\ IsInf(y) /\ x # y) THEN NaN
    ELSE IF IsInf(x) THEN x ELSE y
FSub(x, y) == FAdd(x, FNeg(y))
FMul(x, y) ==
    IF IsFinite(x) /\ IsFinite(y) THEN Rat(x[1] * y[1], x[2] * y[2])
    ELSE IF IsNaN(x) \/ IsNaN(y) \/ x[1] = 0 \/ y[1] = 0 THEN NaN
    ELSE IF (x[1] > 0) = (y[1] > 0) THEN PosInf ELSE NegInf
\* x / y for finite x and y; a zero divisor gives what numpy gives (NaN for
\* 0/0, else an infinity).
FDiv(x, y) ==
    IF y[1] = 0
    THEN IF x[1] = 0 THEN NaN ELSE IF x[1] > 0 THEN PosInf ELSE NegInf
    ELSE Rat(x[1] * y[2], x[2] * y[1])
\* Python's min(a, b) / max(a, b): the first argument unless the second is smaller / larger.
PyMin(a, b) == IF FLt(b, a) THEN b ELSE a
PyMax(a, b) == IF FGt(b, a) THEN b ELSE a


\* ---------------------------------------------------------------- datasets
Min2(a, b) == IF a < b THEN a ELSE b
Max2(a, b) == IF a > b THEN a ELSE b

\* The largest and the second largest element of a set of integers.
SetMax(S) == CHOOSE x \in S : \A y \in S : y <= x
SetMin(S) == CHOOSE x \in S : \A y \in S : x <= y

RECURSIVE SumCounts(_, _)
SumCounts(bag, S) ==
    IF S = {} THEN 0
    ELSE LET r == CHOOSE x \in S : TRUE
         IN  bag[r] + SumCounts(bag, S \ {r})

\* len(df)
NumRows(df) == SumCounts(df.rows, DOMAIN df.rows)

\* df[mask]: the rows for which Keep holds, as a new dataset.
Select(df, Keep(_)) ==
    [df EXCEPT !.rows = [r \in {x \in DOMAIN df.rows : Keep(x)} |-> df.rows[r]]]

\* df[...]['Primary Type'].value_counts(): per type, the number of rows
\* among those for which Keep holds; only types that occur are in the index.
ValueCounts(df, Keep(_)) ==
    LET kept == {r \in DOMAIN df.rows : Keep(r)}
        types == {r.type : r \in kept}
    IN  [t \in types |-> SumCounts(df.rows, {r \in kept : r.type = t})]

\* counts.reindex(all_types, fill_value=0)
Reindex(counts, all_types) ==
    [t \in all_types |-> IF t \in DOMAIN counts THEN counts[t] ELSE 0]

\* Series.sort_values(ascending=False) over the index S: every order of S with
\* non-increasing values.  pandas sorts with quicksort, which promises no
\* order among equal values, so each such order is a possible outcome.
RECURSIVE DescOrders(_, _)
DescOrders(S, val) ==
    IF S = {} THEN {<<>>}
    ELSE UNION { { <<t>> \o s : s \in DescOrders(S \ {t}, val) } :
                 t \in {u \in S : \A w \in S : FGe(val[u], val[w])} }

\* Series.sort_values() (ascending).
RECURSIVE AscOrders(_, _)
AscOrders(S, val) ==
    IF S = {} THEN {<<>>}
    ELSE UNION { { <<t>> \o s : s \in AscOrders(S \ {t}, val) } :
                 t \in {u \in S : \A w \in S : FLe(val[u], val[w])} }

\* seq.head(n) and seq.tail(n)
HeadN(seq, n) == SubSeq(seq, 1, Min2(n, Len(seq)))
TailN(seq, n) == SubSeq(seq, Max2(1, Len(seq) - n + 1), Len(seq))

\* One entry of a trend list.
Entry(t, change) == [crime_type |-> t, avg_monthly_change |-> change]

\* The change values of a trend list, in list order.
Changes(list) == [i \in 1..Len(list) |-> list[i].avg_monthly_change]
ListTypes(list) == {list[i].crime_type : i \in 1..Len(list)}

\* [{'crime_type': t, 'avg_monthly_change': float(val[t])} for t in order if not pd.isna(val[t])]
FormatEntries(order, val) ==
    LET kept == SelectSeq(order, LAMBDA t : ~IsNaN(val[t]))
    IN  [i \in 1..Len(kept) |-> Entry(kept[i], val[kept[i]])]

\* ------------------------------------------------- Tier 1 (year over year)
\* sorted(df['Year'].unique())
Years(df) == {r.year : r \in DOMAIN df.rows}
latest_year(df) == SetMax(Years(df))
previous_year(df) == SetMax(Years(df) \ {latest_year(df)})

raw_latest_counts(df) == ValueCounts(df, LAMBDA r : r.year = latest_year(df))
raw_previous_counts(df) == ValueCounts(df, LAMBDA r : r.year = previous_year(df))
all_types(df) == DOMAIN raw_latest_counts(df) \cup DOMAIN raw_previous_counts(df)
latest_counts(df) == Reindex(raw_latest_counts(df), all_types(df))
previous_counts(df) == Reindex(raw_previous_counts(df), all_types(df))

\* A variant that divides by the latest count: (latest - previous) / (latest + 1) * 100
PctChangeLatestBase(latest, previous) == Rat((latest - previous) * 100, latest + 1)
\* (latest - previous) / (previous + 1) * 100
PctChange(latest, previous) == Rat((latest - previous) * 100, previous + 1)

pct_change(df) ==
    [t \in all_types(df) |-> PctChange(latest_counts(df)[t], previous_counts(df)[t])]

\* A variant with a strict floor: more than 5 rows in one of the two years.
IsSignificantStrict(latest, previous) ==
    latest > SignificanceFloor \/ previous > SignificanceFloor
\* latest_counts[crime_type] >= 5 or previous_counts[crime_type] >= 5
IsSignificant(latest, previous) ==
    latest >= SignificanceFloor \/ previous >= SignificanceFloor

significant_types(df) ==
    {t \in all_types(df) : IsSignificant(latest_counts(df)[t], previous_counts(df)[t])}

\* The precondition of the year-over-year branch: len(years) >= 2.
Tier1Applies(df) == Cardinality(Years(df)) >= 2

\* The results the year-over-year branch can build: pct_change sorted
\* descending, cut to the significant types (the order kept), head(5) and
\* tail(5) of the same series.
Tier1Results(df) ==
    LET pc == pct_change(df)
    IN  { [increasing_crimes |-> FormatEntries(HeadN(order, TopN), pc),
           decreasing_crimes |-> FormatEntries(TailN(order, TopN), pc)] :
          order \in DescOrders(significant_types(df), pc) }

\* ------------------------------------- Tier 2 (month over month, fallback)
\* The elements of a set of integers in ascending order (sort_index()).
RECURSIVE SortedSeq(_)
SortedSeq(S) ==
    IF S = {} THEN <<>>
    ELSE <<SetMin(S)>> \o SortedSeq(S \ {SetMin(S)})

\* df['Month'] = df['Date'].dt.month: the calendar month, 1..12, whatever the year.
Months(df) == {r.month : r \in DOMAIN df.rows}
Types(df) == {r.type : r \in DOMAIN df.rows}

\* monthly_data.sort_index(): the index of the month table, in the order the
\* table is walked.
MonthIndex(df) == SortedSeq(Months(df))

\* monthly_data[crime_type].values: the type's count in each month of the index.
MonthlyCounts(df, t) ==
    LET idx == MonthIndex(df)
    IN  [i \in 1..Len(idx) |->
            SumCounts(df.rows, {r \in DOMAIN df.rows : r.month = idx[i] /\ r.type = t})]

\* The change value of one consecutive pair of months.
PairChange(prev_count, curr_count) ==
    IF prev_count = 0 /\ curr_count > 0
    THEN PyMin(Int2F(EmergenceCap), Int2F(curr_count * EmergenceFactor))
    ELSE IF prev_count > 0 /\ curr_count = 0
    THEN FNeg(PyMin(Int2F(EmergenceCap), Int2F(prev_count * EmergenceFactor)))
    ELSE Rat((curr_count - prev_count) * 100, Max2(1, prev_count))

RECURSIVE SumF(_)
SumF(seq) == IF seq = <<>> THEN Int2F(0) ELSE FAdd(Head(seq), SumF(Tail(seq)))

\* sum(changes) / len(changes) for one crime type (len(changes) >= 1).
AvgChange(df, t) ==
    LET counts == MonthlyCounts(df, t)
        changes == [i \in 1..(Len(counts) - 1) |-> PairChange(counts[i], counts[i + 1])]
    IN  FDiv(SumF(changes), Int2F(Len(changes)))

NoiseFloor == Rat(1, 10)

\* A variant that leaves values above the cap as they are.
ClipUpperOff(x, hi) == x
\* Series.clip(upper=hi) and Series.clip(lower=lo) on one value.
ClipUpper(x, hi) == IF FGt(x, hi) THEN hi ELSE x
ClipLower(x, lo) == IF FLt(x, lo) THEN lo ELSE x

\* The precondition of the month-over-month branch: len(month_counts) >= 2.
Tier2Applies(df) == df.dates_ok /\ Cardinality(Months(df)) >= 2

\* Every (increasing, decreasing) pair the month-over-month branch can build,
\* before it decides whether the pair is worth returning.
Tier2Candidates(df) ==
    LET trends == [t \in Types(df) |-> AvgChange(df, t)]
        inc_val == [t \in Types(df) |-> ClipUpper(trends[t], Int2F(Tier2Cap))]
        dec_val == [t \in Types(df) |-> ClipLower(trends[t], Int2F(-Tier2Cap))]
    IN  { [increasing_crimes |->
               FormatEntries(SelectSeq(HeadN(inc, TopN),
                                       LAMBDA t : FGt(inc_val[t], NoiseFloor)), inc_val),
           decreasing_crimes |->
               FormatEntries(SelectSeq(HeadN(dec, TopN),
                                       LAMBDA t : FLt(dec_val[t], FNeg(NoiseFloor))), dec_val)] :
          inc \in DescOrders(Types(df), trends), dec \in AscOrders(Types(df), trends) }

\* The results the month-over-month branch returns; empty when it falls
\* through to the final fallback (fewer than 2 months, both lists empty, or
\* an exception, which the branch swallows).
Tier2Results(df) ==
    IF ~Tier2Applies(df) THEN {}
    ELSE {res \in Tier2Candidates(df) :
            Len(res.increasing_crimes) > 0 \/ Len(res.decreasing_crimes) > 0}

\* --------------------------- Tier 3 (frequency and recency, final fallback)
\* np.random.uniform(-a, a): the draws the model takes from the interval.
Uniform(a) == { Rat(k * a[1], a[2] * JitterSteps) : k \in (-JitterSteps)..JitterSteps }
SynthJitter == Rat(1, 5)
RecencyJitter == Rat(1, 10)
\* x * (1 + u)
Perturb(x, u) == FMul(x, FAdd(Int2F(1), u))

\* df['Primary Type'].value_counts(): the types by descending count, in every
\* order the sort may leave equal counts in.
crime_counts(df) ==
    LET c == ValueCounts(df, LAMBDA r : TRUE)
    IN  DescOrders(DOMAIN c, [t \in DOMAIN c |-> Int2F(c[t])])

\* The base value of position i (0-based) in the simple distribution.
SynthHigh(i) == Int2F(SynthHighBase - i * SynthStep)
SynthLow(i) == Int2F(SynthLowBase - i * SynthStep)

\* Fewer than 10 crime types: rising values for the 5 most frequent types,
\* falling values for the 5 least frequent, each with its own random factor.
SimpleDistribution(df) ==
    UNION { LET hi == HeadN(order, TopN)
                lo == TailN(order, TopN)
            IN  { [increasing_crimes |->
                       [i \in 1..Len(hi) |-> Entry(hi[i], Perturb(SynthHigh(i - 1), ju[i]))],
                   decreasing_crimes |->
                       [i \in 1..Len(lo) |-> Entry(lo[i], Perturb(SynthLow(i - 1), jd[i]))]] :
                  ju \in [1..Len(hi) -> Uniform(SynthJitter)],
                  jd \in [1..Len(lo) -> Uniform(SynthJitter)] } :
            order \in crime_counts(df) }

\* np.linspace(start, stop, n)[i], i 0-based.
Linspace(start, stop, n, i) ==
    IF n = 1 THEN Int2F(start)
    ELSE FAdd(Int2F(start), Rat((stop - start) * i, n - 1))

\* 10 or more types but all rows in one calendar month (or none in it):
\* artificial trends by frequency, np.linspace(20, 5, n) and np.linspace(-5, -20, n).
\* The two lists are drawn independently of each other: for one order of the
\* types, every increasing list goes with every decreasing list.
FrequencyHigh(order) ==
    LET hi == HeadN(order, TopN)
    IN  { [i \in 1..Len(hi) |->
              Entry(hi[i], Perturb(Linspace(LinspaceHighStart, LinspaceHighStop,
                                            Len(hi), i - 1), ju[i]))] :
          ju \in [1..Len(hi) -> Uniform(SynthJitter)] }
FrequencyLow(order) ==
    LET lo == TailN(order, TopN)
    IN  { [i \in 1..Len(lo) |->
              Entry(lo[i], Perturb(Linspace(LinspaceLowStart, LinspaceLowStop,
                                            Len(lo), i - 1), jd[i]))] :
          jd \in [1..Len(lo) -> Uniform(SynthJitter)] }
FrequencyParts(df) ==
    { [increasing_crimes : FrequencyHigh(order), decreasing_crimes : FrequencyLow(order)] :
      order \in crime_counts(df) }
FrequencyDistribution(df) == UNION FrequencyParts(df)

\* Days from a fixed origin to the date of a row (proleptic Gregorian calendar).
IsLeap(y) == (y % 4 = 0 /\ y % 100 # 0) \/ y % 400 = 0
DaysBeforeMonth == <<0, 31, 59, 90, 120, 151, 181, 212, 243, 273, 304, 334>>
Ordinal(r) ==
    LET y == r.year - 1
    IN  365 * y + (y \div 4) - (y \div 100) + (y \div 400)
        + DaysBeforeMonth[r.month] + (IF IsLeap(r.year) /\ r.month > 2 THEN 1 ELSE 0)
        + r.day

\* df['Date'].max().month
current_month(df) ==
    LET last == CHOOSE r \in DOMAIN df.rows : \A q \in DOMAIN df.rows : Ordinal(q) <= Ordinal(r)
    IN  last.month

recent_data(df) == Select(df, LAMBDA r : r.month = current_month(df))
older_data(df) == Select(df, LAMBDA r : r.month # current_month(df))

\* (data['Date'].max() - data['Date'].min()).days + 1, and 1 in place of 0.
PeriodDays(data) ==
    LET ords == {Ordinal(r) : r \in DOMAIN data.rows}
        days == SetMax(ords) - SetMin(ords) + 1
    IN  IF days = 0 THEN 1 ELSE days

\* The change of one type between the older and the recent period.
RateChange(recent_rate, older_rate) ==
    IF older_rate[1] = 0 /\ recent_rate[1] > 0
    THEN PyMin(Int2F(RecencyCap), FMul(recent_rate, Int2F(RecencyFactor)))
    ELSE IF older_rate[1] > 0 /\ recent_rate[1] = 0
    THEN PyMax(Int2F(-RecencyCap), FMul(FNeg(older_rate), Int2F(RecencyFactor)))
    ELSE IF older_rate[1] > 0
    THEN FMul(FDiv(FSub(recent_rate, older_rate), older_rate), Int2F(100))
    ELSE Int2F(0)

\* Series.clip(lower=lo, upper=hi) on one value.
Clip(x, lo, hi) == ClipUpper(ClipLower(x, lo), hi)

SeqRange(seq) == {seq[i] : i \in 1..Len(seq)}

\* 10 or more types and rows both in and outside the most recent calendar
\* month: rates per day of each period, their relative change, clipped and
\* jittered by up to 10%.
RecencyTrends(df) ==
    LET recent == recent_data(df)
        older == older_data(df)
        types == Types(df)
        recent_counts == Reindex(ValueCounts(recent, LAMBDA r : TRUE), types)
        older_counts == Reindex(ValueCounts(older, LAMBDA r : TRUE), types)
        changes == [t \in types |->
                       RateChange(Rat(recent_counts[t], PeriodDays(recent)),
                                  Rat(older_counts[t], PeriodDays(older)))]
        inc_val == [t \in types |-> Clip(changes[t], NoiseFloor, Int2F(RecencyCap))]
        dec_val == [t \in types |-> Clip(changes[t], Int2F(-RecencyCap), FNeg(NoiseFloor))]
    IN  UNION { { [increasing_crimes |->
                       [i \in 1..Len(inc) |-> Entry(inc[i], Perturb(inc_val[inc[i]], ju[i]))],
                   decreasing_crimes |->
                       [i \in 1..Len(dec) |-> Entry(dec[i], Perturb(dec_val[dec[i]], jd[i]))]] :
                  inc \in DescOrders(SeqRange(TailN(sorted, TopN)), changes),
                  dec \in AscOrders(SeqRange(HeadN(sorted, TopN)), changes),
                  ju \in [1..Min2(TopN, Len(sorted)) -> Uniform(RecencyJitter)],
                  jd \in [1..Min2(TopN, Len(sorted)) -> Uniform(RecencyJitter)] } :
                sorted \in AscOrders(types, changes) }

\* A variant that raises on every 'Date' column that never parsed.
Tier3RaisesOnUnparsed(df) == ~df.dates_ok
\* The final fallback raises when it needs the month of a 'Date' column that
\* never parsed as dates (line 338: a str has no .month).
Tier3Raises(df) == Cardinality(Types(df)) >= MinTypesForRecency /\ ~df.dates_ok

\* The results of the final fallback, grouped by the order value_counts()
\* left the types in where the branch depends on nothing else.
Tier3Parts(df) ==
    IF Cardinality(Types(df)) < MinTypesForRecency THEN {SimpleDistribution(df)}
    ELSE IF NumRows(recent_data(df)) = 0 \/ NumRows(older_data(df)) = 0
    THEN FrequencyParts(df)
    ELSE {RecencyTrends(df)}

Tier3Results(df) == UNION Tier3Parts(df)

\* ------------------------------------------------ the final response layer
\* min(40.0, abs(v)) if v > 0 else v
CapIncreasing(v) == IF FGt(v, Int2F(0)) THEN PyMin(Int2F(ResponseCapHi), FAbs(v)) ELSE v
\* max(-40.0, -abs(v)) if v < 0 else v
CapDecreasing(v) == IF FLt(v, Int2F(0)) THEN PyMax(Int2F(ResponseCapLo), FNeg(FAbs(v))) ELSE v

\* One list of the response: entries whose value is inf or nan dropped, the
\* others rewritten by Cap.
CapList(list, Cap(_)) ==
    LET kept == SelectSeq(list, LAMBDA e : ~IsInf(e.avg_monthly_change)
                                           /\ ~IsNaN(e.avg_monthly_change))
    IN  [i \in 1..Len(kept) |-> Entry(kept[i].crime_type, Cap(kept[i].avg_monthly_change))]

\* get_crime_trends after analyze_crime_trends returned: both keys are always there.
ResponseLayer(results) ==
    [results EXCEPT !.increasing_crimes = CapList(@, CapIncreasing),
                    !.decreasing_crimes = CapList(@, CapDecreasing)]

\* The error value analyze_crime_trends returns when the fallback raised too.
ErrorResult == [error |-> "Error analyzing crime trends",
                increasing_crimes |-> <<>>, decreasing_crimes |-> <<>>]

\* --------------------------------------------------------------- variables
VARIABLES
    file,           \* data/raw_data.csv: what load_data() finds on disk
    crime_data,     \* routes.crime_data, the module-level cache
    loads,          \* how many times load_data() returned and was stored
    pc,             \* per request thread: "idle", "load", "serve" or "analyze"
    endpoint,       \* per thread: the route it is handling
    resp,           \* the response being sent (None: none)
    sent,           \* the response a client kept from an earlier call (None: none)
    df,             \* the filtered dataset handed to analyze_crime_trends
    step,           \* where the trend analysis of df stands
    tier1,          \* what became of the year-over-year branch
    tier,           \* the tier that produced trend_results (0: the error value)
    trend_results,  \* what analyze_crime_trends returned
    response,       \* the body get_crime_trends passes to jsonify
    query,          \* the query string of the request being analysed
    view            \* the frame df is: "copy" (the request's own) or "cache"

vars == <<file, crime_data, loads, pc, endpoint, resp, sent,
          df, step, tier1, tier, trend_results, response, query, view>>
apiVars == <<file, crime_data, loads, pc, endpoint, resp, sent>>
trendVars == <<df, step, tier1, tier, trend_results, response, query, view>>

None == [none |-> TRUE]

\* ------------------------------------------------- datasets of the checks
RequiredColumns == {"Date", "Primary Type", "Latitude", "Longitude", "Year", "Arrest",
                    "Domestic"}
AllColumns == RequiredColumns \cup {"District", "Location Description"}
Row(t, y, m, d, dist) ==
    [type |-> t, year |-> y, month |-> m, day |-> d, district |-> dist,
     arrest |-> FALSE, domestic |-> FALSE]
Dataset(bag, ok) == [rows |-> bag, dates_ok |-> ok, columns |-> AllColumns]

TypeA == <<"A">>
TypeB == <<"B">>
TrendKinds ==
    { Row(t, ym[1], ym[2], 1, 1) :
      t \in {TypeA, TypeB}, ym \in {<<2023, 12>>, <<2024, 1>>, <<2024, 12>>} }

\* Every bag over the row kinds S with at most `budget` rows.
RECURSIVE BagsOver(_, _)
BagsOver(S, budget) ==
    IF S = {} THEN {<<>>}
    ELSE LET k == CHOOSE x \in S : TRUE
         IN  UNION { { IF c = 0 THEN b ELSE (k :> c) @@ b : b \in BagsOver(S \ {k}, budget - c) } :
                     c \in 0..budget }

\* The counts of the year-over-year example: A 10 then 15, B 20 then 5.
ExampleBag ==
    (Row(TypeA, 2023, 12, 1, 1) :> 10) @@ (Row(TypeA, 2024, 12, 1, 1) :> 15) @@
    (Row(TypeB, 2023, 12, 1, 1) :> 20) @@ (Row(TypeB, 2024, 12, 1, 1) :> 5)

\* Rows of a 'Date' column that never parsed: they have a year (the 'Year'
\* column) but no month or day, written 1 here and never read.
UnparsedKinds == { Row(t, y, 1, 1, 1) : t \in {TypeA, TypeB}, y \in {2023, 2024} }

\* MinTypesForRecency distinct crime types, one row each, in one year.
DigitChars == <<"0", "1", "2", "3", "4", "5", "6", "7", "8", "9">>
ManyTypes == { <<"T", DigitChars[i]>> : i \in 1..MinTypesForRecency }
WideBag == [r \in { Row(t, 2024, 1, 1, 1) : t \in ManyTypes } |-> 1]

TrendDatasets ==
    { Dataset(b, TRUE) : b \in BagsOver(TrendKinds, MaxRows) \cup {ExampleBag} }
    \cup { Dataset(b, FALSE) : b \in BagsOver(UnparsedKinds, MaxUnparsedRows) \cup {WideBag} }

\* ------------------------------------ analyze_crime_trends, step by step
\* A variant that falls back whenever neither list is full.
Tier1IsShort(res) ==
    Len(res.increasing_crimes) < TopN /\ Len(res.decreasing_crimes) < TopN
\* not result['increasing_crimes'] and not result['decreasing_crimes']
Tier1IsEmpty(res) ==
    Len(res.increasing_crimes) = 0 /\ Len(res.decreasing_crimes) = 0

\* The try block up to the year-over-year branch.  pd.to_datetime raises on a
\* 'Date' column that does not parse; fewer than 2 years, or two empty
\* lists, call the fallback.
AnalyzeCrimeTrends ==
    /\ step = "start"
    /\ IF ~df.dates_ok
       THEN /\ tier1' = "raised"
            /\ step' = "fallback"
            /\ UNCHANGED <<tier, trend_results>>
       ELSE IF ~Tier1Applies(df)
       THEN /\ tier1' = "skipped"
            /\ step' = "fallback"
            /\ UNCHANGED <<tier, trend_results>>
       ELSE \E res \in Tier1Results(df) :
              IF Tier1IsEmpty(res)
              THEN /\ tier1' = "empty"
                   /\ step' = "fallback"
                   /\ UNCHANGED <<tier, trend_results>>
              ELSE /\ tier1' = "returned"
                   /\ tier' = 1
                   /\ trend_results' = res
                   /\ step' = "returned"
    /\ UNCHANGED <<df, response, query, view>>
    /\ UNCHANGED apiVars

\* frame[name] = ... for each name of cols: the frame gains those columns.
AddColumns(frame, cols) == [frame EXCEPT !.columns = @ \cup cols]

\* _fallback_trend_analysis, its month-over-month try block.  Its first two
\* statements write the columns Month and Quarter into the frame it was
\* given (the first raises, and nothing is written, on dates that never
\* parsed); the frame is the cached one when the handler passed no copy.
FallbackMonthOverMonth ==
    /\ step = "fallback"
    /\ df' = IF df.dates_ok THEN AddColumns(df, {"Month", "Quarter"}) ELSE df
    /\ crime_data' = IF view = "cache" /\ df.dates_ok
                     THEN AddColumns(crime_data, {"Month", "Quarter"})
                     ELSE crime_data
    /\ IF Tier2Results(df) = {}
       THEN /\ step' = "final"
            /\ UNCHANGED <<tier, trend_results>>
       ELSE \E res \in Tier2Results(df) :
              /\ tier' = 2
              /\ trend_results' = res
              /\ step' = "returned"
    /\ UNCHANGED <<tier1, response, query, view>>
    /\ UNCHANGED <<sent, file, loads, pc, endpoint, resp>>

\* _fallback_trend_analysis, the final fallback; when it raises,
\* analyze_crime_trends returns its error value.
FallbackFrequency ==
    /\ step = "final"
    /\ IF Tier3Raises(df)
       THEN /\ tier' = 0
            /\ trend_results' = ErrorResult
       ELSE \E part \in Tier3Parts(df) : \E res \in part :
              /\ tier' = 3
              /\ trend_results' = res
    /\ step' = "returned"
    /\ UNCHANGED <<df, tier1, response, query, view>>
    /\ UNCHANGED apiVars

\* get_crime_trends, from the return of analyze_crime_trends to jsonify.
CapTrendResults ==
    /\ step = "returned"
    /\ response' = ResponseLayer(trend_results)
    /\ step' = "done"
    /\ UNCHANGED <<df, tier1, tier, trend_results, query, view>>
    /\ UNCHANGED apiVars

NoResults == [increasing_crimes |-> <<>>, decreasing_crimes |-> <<>>]

\* ------------------------------------------------------------ the routes
Endpoints == {"crime-data", "crime-summary", "heatmap-data", "crime-types", "years",
              "districts", "time-series", "clusters", "arrest-prediction", "crime-trends"}

\* request.args.get(name): absent, or the text given.
Absent == [given |-> FALSE, text |-> <<>>]
Text(t) == [given |-> TRUE, text |-> t]
\* `if year:` -- None and the empty string are both false.
HasValue(param) == param.given /\ param.text # <<>>

YearParams == {Absent, Text(<<>>), Text(<<"2", "0", "2", "3">>), Text(<<"2", "0", "2", "4">>),
               Text(<<"2", "0", "x", "4">>)}
TypeParams == {Absent, Text(<<"A">>), Text(<<"a">>), Text(<<"B">>)}
DistrictParams == {Absent, Text(<<"1">>), Text(<<"x">>)}
Request(y, t, d) == [year |-> y, type |-> t, district |-> d]
NoRequest == Request(Absent, Absent, Absent)

\* int(text): decimal digits only (signs, blanks and underscores, which int()
\* also takes, are not among the texts of the model).
IsDigit(c) == \E i \in 1..Len(DigitChars) : DigitChars[i] = c
DigitValue(c) == (CHOOSE i \in 1..Len(DigitChars) : DigitChars[i] = c) - 1
CanParseInt(text) == text # <<>> /\ \A i \in 1..Len(text) : IsDigit(text[i])
RECURSIVE ParseInt(_)
ParseInt(text) ==
    IF text = <<>> THEN 0
    ELSE ParseInt(SubSeq(text, 1, Len(text) - 1)) * 10 + DigitValue(text[Len(text)])

\* str.upper()
UpperChar(c) == CASE c = "a" -> "A" [] c = "b" -> "B" [] c = "x" -> "X" [] OTHER -> c
Upper(text) == [i \in 1..Len(text) |-> UpperChar(text[i])]

\* The state of a chain of filters: the rows kept so far, or an exception.
Kept(data) == [raised |-> FALSE, df |-> data]
Raised == [raised |-> TRUE, df |-> Dataset(<<>>, TRUE)]

\* if year: filtered_data = filtered_data[filtered_data['Year'] == int(year)]
FilterYear(st, year) ==
    IF st.raised \/ ~HasValue(year) THEN st
    ELSE IF ~CanParseInt(year.text) THEN Raised
    ELSE Kept(Select(st.df, LAMBDA r : r.year = ParseInt(year.text)))

\* if crime_type: filtered_data = filtered_data[filtered_data['Primary Type'] == crime_type]
FilterType(st, type) ==
    IF st.raised \/ ~HasValue(type) THEN st
    ELSE Kept(Select(st.df, LAMBDA r : r.type = type.text))

\* The same filter in get_crime_data: both sides upper-cased.
FilterTypeAnyCase(st, type) ==
    IF st.raised \/ ~HasValue(type) THEN st
    ELSE Kept(Select(st.df, LAMBDA r : Upper(r.type) = Upper(type.text)))

\* if district: filtered_data = filtered_data[filtered_data['District'] == int(district)]
\* (a KeyError without the column, a ValueError on a text that is no integer).
FilterDistrict(st, district) ==
    IF st.raised \/ ~HasValue(district) THEN st
    ELSE IF "District" \notin st.df.columns \/ ~CanParseInt(district.text) THEN Raised
    ELSE Kept(Select(st.df, LAMBDA r : r.district = ParseInt(district.text)))

\* A variant that copies the cache only when a filter cuts rows out of it.
CopiesCacheIfFiltered(req) ==
    HasValue(req.year) \/ HasValue(req.type) \/ HasValue(req.district)
\* filtered_data = crime_data.copy(): whatever the request, the handler works
\* on a frame of its own, not on the cached one.
CopiesCache(req) == TRUE

\* crime_data.copy() followed by the three filters of an analytic route.
ApplyFilters(data, req) ==
    FilterDistrict(FilterType(FilterYear(Kept(data), req.year), req.type), req.district)

\* ---- JSON
\* CustomJSONEncoder.default(obj): what the hook returns for a float.  json
\* calls the hook only for an object it cannot serialise itself, which a
\* float never is: no payload of the handlers reaches it.
Token(name, x) == [token |-> name, value |-> x]
EncoderDefault(x) ==
    IF IsNaN(x) THEN Token("null", NaN)
    ELSE IF IsInf(x)
    THEN IF FGt(x, Int2F(0)) THEN Token("number", Int2F(EncoderCapHi))
         ELSE Token("number", Int2F(EncoderCapLo))
    ELSE Token("number", x)

\* What json.dumps writes for a float it meets in a payload.  JSONEncoder
\* calls default() only for objects it cannot serialise itself; a float
\* (numpy.float64 is one) it writes itself, NaN and the infinities as the
\* tokens NaN, Infinity and -Infinity.
Dumps(x) ==
    IF IsNaN(x) THEN Token("NaN", x)
    ELSE IF x = PosInf THEN Token("Infinity", x)
    ELSE IF x = NegInf THEN Token("-Infinity", x)
    ELSE Token("number", x)

\* jsonify(payload): the numeric leaves of the payload as written.
Jsonify(leaves) == [i \in 1..Len(leaves) |-> Dumps(leaves[i])]

\* Whether a request gives a year or a district that is no decimal integer.
NotAnInteger(req) ==
    \E param \in {req.year, req.district} :
        /\ param.given /\ param.text # <<>>
        /\ \E i \in 1..Len(param.text) :
               param.text[i] \notin {"0", "1", "2", "3", "4", "5", "6", "7", "8", "9"}

\* A response: a JSON document written by jsonify, or ("fault") the server's
\* answer to an exception that left the handler: a 500 page that is no JSON.
\* bad_filter records whether the request gave a year or district that is no
\* integer, analytic whether an analytic stage was called, tier the tier a
\* trend result came from (-1 on the other routes).
Json(e, req, status, is_error, ran, leaves, body) ==
    [endpoint |-> e, bad_filter |-> NotAnInteger(req), status |-> status, kind |-> "json",
     error |-> is_error, analytic |-> ran, numbers |-> Jsonify(leaves), body |-> body,
     request |-> req, tier |-> -1]
Fault(e, req, ran) ==
    [endpoint |-> e, bad_filter |-> NotAnInteger(req), status |-> 500, kind |-> "fault",
     error |-> TRUE, analytic |-> ran, numbers |-> <<>>, body |-> <<>>,
     request |-> req, tier |-> -1]

\* ---- the dataset on disk and the cache
NoFile == [missing |-> TRUE]

\* load_data(): raises when the file is missing or lacks a required column.
LoadRaises(f) == f = NoFile \/ ~(RequiredColumns \subseteq f.columns)

\* series.mean() of a boolean column, times 100: NaN over no rows.
MeanTimes100(data, Flag(_)) ==
    FMul(FDiv(Int2F(SumCounts(data.rows, {r \in DOMAIN data.rows : Flag(r)})),
              Int2F(NumRows(data))), Int2F(100))

\* ---- the files of the checks
ApiRow(t, y, m, dist, arrested) == [Row(t, y, m, 1, dist) EXCEPT !.arrest = arrested]
ApiKinds == {ApiRow(TypeA, 2023, 12, 1, TRUE), ApiRow(TypeB, 2024, 1, 2, FALSE)}
LargeKind == ApiRow(TypeA, 2024, 1, 1, FALSE)
SmallBag == [r \in {ApiRow(TypeA, 2023, 12, 1, TRUE)} |-> 1]

\* The files load_data() may find: none; files of a few rows (none
\* included); files just below and at the row count clustering asks for; a
\* file whose dates do not parse; files without an optional or a required
\* column.
ApiFiles ==
    {NoFile}
    \cup { Dataset(b, TRUE) : b \in BagsOver(ApiKinds, MaxApiRows) }
    \cup { Dataset([r \in {LargeKind} |-> n], TRUE) : n \in {ClusterMinRows - 1, ClusterMinRows} }
    \cup { Dataset(SmallBag, FALSE) }
    \cup { [Dataset(SmallBag, TRUE) EXCEPT !.columns = AllColumns \ {c}] :
           c \in {"District", "Location Description", "Arrest"} }

\* ---- the handlers
\* A request arrives and a thread starts its handler: the handler's first
\* statement reads the cache (`if crime_data is None`).
Enter(p, e) ==
    /\ pc[p] = "idle"
    /\ endpoint' = [endpoint EXCEPT ![p] = e]
    /\ pc' = [pc EXCEPT ![p] = IF crime_data = None THEN "load" ELSE "serve"]
    /\ UNCHANGED <<sent, file, crime_data, loads, resp>>
    /\ UNCHANGED trendVars

\* crime_data = load_data(), by a thread that found the cache empty.  Only
\* get_crime_data catches the exception of load_data.
LoadData(p) ==
    /\ pc[p] = "load"
    /\ IF LoadRaises(file)
       THEN /\ resp = None
            /\ resp' = IF endpoint[p] = "crime-data"
                       THEN Json(endpoint[p], NoRequest, 500, TRUE, FALSE, <<>>, <<>>)
                       ELSE Fault(endpoint[p], NoRequest, FALSE)
            /\ pc' = [pc EXCEPT ![p] = "idle"]
            /\ UNCHANGED <<crime_data, loads>>
       ELSE /\ crime_data' = file
            /\ loads' = loads + 1
            /\ pc' = [pc EXCEPT ![p] = "serve"]
            /\ UNCHANGED resp
    /\ UNCHANGED <<sent, file, endpoint>>
    /\ UNCHANGED trendVars

Serving(p, e) == pc[p] = "serve" /\ endpoint[p] = e /\ resp = None
Reply(p, r) ==
    /\ resp' = r
    /\ pc' = [pc EXCEPT ![p] = "idle"]
    /\ UNCHANGED <<sent, file, crime_data, loads, endpoint>>
    /\ UNCHANGED trendVars

\* get_crime_data: every failure is caught and answered with a JSON error.
GetCrimeData(p) ==
    /\ Serving(p, "crime-data")
    /\ \E y \in YearParams, t \in TypeParams, d \in DistrictParams :
         LET req == Request(y, t, d)
             st == FilterDistrict(FilterTypeAnyCase(FilterYear(Kept(crime_data), y), t), d)
         IN  Reply(p, IF st.raised
                      THEN Json("crime-data", req, 400, TRUE, FALSE, <<>>, <<>>)
                      ELSE Json("crime-data", req, 200, FALSE, FALSE, <<>>,
                                [records |-> Min2(NumRows(st.df), RecordCap)]))

\* get_crime_summary
GetCrimeSummary(p) ==
    /\ Serving(p, "crime-summary")
    /\ LET arrest_rate == MeanTimes100(crime_data, LAMBDA r : r.arrest)
           domestic_rate == MeanTimes100(crime_data, LAMBDA r : r.domestic)
       IN  Reply(p, Json("crime-summary", NoRequest, 200, FALSE, FALSE,
                         <<Int2F(NumRows(crime_data)), arrest_rate, domestic_rate>>,
                         [total_crimes |-> NumRows(crime_data),
                          crimes_by_type |-> ValueCounts(crime_data, LAMBDA r : TRUE),
                          crimes_by_year |->
                              [y \in Years(crime_data) |->
                                  NumRows(Select(crime_data, LAMBDA r : r.year = y))]]))

\* get_heatmap_data (coordinates are not modelled: the body is the number of points).
GetHeatmapData(p) ==
    /\ Serving(p, "heatmap-data")
    /\ \E y \in YearParams, t \in TypeParams, d \in DistrictParams :
         LET req == Request(y, t, d)
             st == ApplyFilters(crime_data, req)
         IN  Reply(p, IF st.raised THEN Fault("heatmap-data", req, FALSE)
                      ELSE Json("heatmap-data", req, 200, FALSE, FALSE, <<>>,
                                [points |-> Max2(1, Min2(NumRows(st.df), RecordCap))]))

\* get_crime_types
GetCrimeTypes(p) ==
    /\ Serving(p, "crime-types")
    /\ Reply(p, Json("crime-types", NoRequest, 200, FALSE, FALSE, <<>>,
                     [crime_types |-> Types(crime_data)]))

\* get_years
GetYears(p) ==
    /\ Serving(p, "years")
    /\ Reply(p, Json("years", NoRequest, 200, FALSE, FALSE, <<>>,
                     [years |-> SortedSeq(Years(crime_data))]))

\* get_districts: crime_data['District'] raises without the column.
GetDistricts(p) ==
    /\ Serving(p, "districts")
    /\ Reply(p, IF "District" \notin crime_data.columns
                THEN Fault("districts", NoRequest, FALSE)
                ELSE Json("districts", NoRequest, 200, FALSE, FALSE, <<>>,
                          [districts |-> SortedSeq({r.district : r \in DOMAIN crime_data.rows})]))

\* get_time_series: filtered_data['Date'].dt raises on dates that never
\* parsed; otherwise the column Month is written into filtered_data, which is
\* the cached frame when the handler made no copy.
GetTimeSeries(p) ==
    /\ Serving(p, "time-series")
    /\ \E t \in TypeParams :
         LET req == Request(Absent, t, Absent)
             st == FilterType(Kept(crime_data), t)
             periods == {<<r.year, r.month>> : r \in DOMAIN st.df.rows}
         IN  /\ resp' = IF ~crime_data.dates_ok THEN Fault("time-series", req, FALSE)
                        ELSE Json("time-series", req, 200, FALSE, FALSE, <<>>,
                                  [monthly_counts |->
                                      [ym \in periods |->
                                          NumRows(Select(st.df, LAMBDA r : <<r.year, r.month>> = ym))]])
             /\ crime_data' = IF crime_data.dates_ok /\ ~CopiesCache(req)
                              THEN AddColumns(crime_data, {"Month"})
                              ELSE crime_data
    /\ pc' = [pc EXCEPT ![p] = "idle"]
    /\ UNCHANGED <<sent, file, loads, endpoint>>
    /\ UNCHANGED trendVars

\* get_clusters: below 100 rows the empty result; otherwise the call
\* perform_cluster_analysis(sample_data, crime_type) of a function that takes
\* one argument, which raises TypeError before the function's body runs.
GetClusters(p) ==
    /\ Serving(p, "clusters")
    /\ \E y \in YearParams, t \in TypeParams, d \in DistrictParams :
         LET req == Request(y, t, d)
             st == ApplyFilters(crime_data, req)
         IN  Reply(p, IF st.raised THEN Fault("clusters", req, FALSE)
                      ELSE IF NumRows(st.df) < ClusterMinRows
                      THEN Json("clusters", req, 200, FALSE, FALSE, <<Int2F(0)>>,
                                [n_clusters |-> 0])
                      ELSE Fault("clusters", req, FALSE))

\* DataFrame.sample(n) without random_state: n rows drawn without
\* replacement by a generator seeded anew in every process and advanced by
\* every call, so each choice of n rows is a possible outcome.  (A bag holds
\* no order: the order sample() leaves the rows in is not modelled.)
RECURSIVE SampleBags(_, _, _)
SampleBags(bag, S, n) ==
    IF S = {} THEN (IF n = 0 THEN {<<>>} ELSE {})
    ELSE LET k == CHOOSE x \in S : TRUE
             rest == SumCounts(bag, S \ {k})
         IN  UNION { { IF c = 0 THEN b ELSE (k :> c) @@ b :
                       b \in SampleBags(bag, S \ {k}, n - c) } :
                     c \in Max2(0, n - rest)..Min2(bag[k], n) }
Sample(frame, n) ==
    { [frame EXCEPT !.rows = b] : b \in SampleBags(frame.rows, DOMAIN frame.rows, n) }

\* get_arrest_prediction (year and type filters only) and
\* predict_arrest_probability: a KeyError without 'Location Description',
\* the "not enough data" marker below 100 rows, otherwise the metrics of the
\* model trained on the sampled rows (the body holds the rows, of which the
\* metrics are a function).
GetArrestPrediction(p) ==
    /\ Serving(p, "arrest-prediction")
    /\ \E y \in YearParams, t \in TypeParams :
         LET req == Request(y, t, Absent)
             st == FilterType(FilterYear(Kept(crime_data), y), t)
         IN  IF st.raised THEN Reply(p, Fault("arrest-prediction", req, FALSE))
             ELSE \E sample_data \in Sample(st.df, Min2(PredictionSample, NumRows(st.df))) :
                    Reply(p, IF "Location Description" \notin sample_data.columns
                             THEN Fault("arrest-prediction", req, TRUE)
                             ELSE IF NumRows(sample_data) < PredictionMinRows
                             THEN Json("arrest-prediction", req, 200, TRUE, TRUE, <<>>,
                                       [status |-> "error"])
                             ELSE Json("arrest-prediction", req, 200, FALSE, TRUE, <<>>,
                                       [status |-> "success", trained_on |-> sample_data.rows]))

\* get_crime_trends up to the call of analyze_crime_trends.  The analysis
\* works on the handler's own copy; the model follows one analysis at a time.
GetCrimeTrends(p) ==
    /\ pc[p] = "serve" /\ endpoint[p] = "crime-trends" /\ resp = None
    /\ step = "idle"
    /\ \E y \in YearParams, t \in TypeParams, d \in DistrictParams :
         LET req == Request(y, t, d)
             st == ApplyFilters(crime_data, req)
         IN  IF st.raised
             THEN /\ resp' = Fault("crime-trends", req, FALSE)
                  /\ pc' = [pc EXCEPT ![p] = "idle"]
                  /\ UNCHANGED trendVars
             ELSE /\ df' = st.df
                  /\ step' = "start"
                  /\ tier1' = "pending"
                  /\ tier' = -1
                  /\ trend_results' = NoResults
                  /\ response' = NoResults
                  /\ query' = req
                  /\ view' = IF CopiesCache(req) THEN "copy" ELSE "cache"
                  /\ pc' = [pc EXCEPT ![p] = "analyze"]
                  /\ UNCHANGED resp
    /\ UNCHANGED <<sent, file, crime_data, loads, endpoint>>

\* return jsonify(trend_results)
JsonifyTrends(p) ==
    /\ pc[p] = "analyze" /\ step = "done" /\ resp = None
    /\ resp' = [Json("crime-trends", query, 200, "error" \in DOMAIN response, TRUE,
                     Changes(response.increasing_crimes) \o Changes(response.decreasing_crimes),
                     response) EXCEPT !.tier = tier]
    /\ pc' = [pc EXCEPT ![p] = "idle"]
    /\ step' = "idle"
    /\ df' = Dataset(<<>>, TRUE)
    /\ tier1' = "pending"
    /\ tier' = -1
    /\ trend_results' = NoResults
    /\ response' = NoResults
    /\ query' = NoRequest
    /\ view' = "copy"
    /\ UNCHANGED <<sent, file, crime_data, loads, endpoint>>

\* The response has left the server.
Send ==
    /\ resp # None
    /\ resp' = None
    /\ UNCHANGED <<sent, file, crime_data, loads, pc, endpoint>>
    /\ UNCHANGED trendVars

\* The response has left the server and the client keeps it, to compare it
\* with the response to its next call.
Remember ==
    /\ resp # None
    /\ sent' = resp
    /\ resp' = None
    /\ UNCHANGED <<file, crime_data, loads, pc, endpoint>>
    /\ UNCHANGED trendVars

Init ==
    /\ file \in ApiFiles
    /\ crime_data = None
    /\ loads = 0
    /\ pc = [p \in {1} |-> "idle"]
    /\ endpoint = [p \in {1} |-> "none"]
    /\ resp = None
    /\ sent = None
    /\ df = Dataset(<<>>, TRUE)
    /\ step = "idle"
    /\ tier1 = "pending"
    /\ tier = -1
    /\ trend_results = NoResults
    /\ response = NoResults
    /\ query = NoRequest
    /\ view = "copy"

Next ==
    \/ \E p \in DOMAIN pc, e \in Endpoints : Enter(p, e)
    \/ \E p \in DOMAIN pc : LoadData(p)
    \/ \E p \in DOMAIN pc : GetCrimeData(p)
    \/ \E p \in DOMAIN pc : GetCrimeSummary(p)
    \/ \E p \in DOMAIN pc : GetHeatmapData(p)
    \/ \E p \in DOMAIN pc : GetCrimeTypes(p)
    \/ \E p \in DOMAIN pc : GetYears(p)
    \/ \E p \in DOMAIN pc : GetDistricts(p)
    \/ \E p \in DOMAIN pc : GetTimeSeries(p)
    \/ \E p \in DOMAIN pc : GetClusters(p)
    \/ \E p \in DOMAIN pc : GetArrestPrediction(p)
    \/ \E p \in DOMAIN pc : GetCrimeTrends(p)
    \/ AnalyzeCrimeTrends
    \/ FallbackMonthOverMonth
    \/ FallbackFrequency
    \/ CapTrendResults
    \/ \E p \in DOMAIN pc : JsonifyTrends(p)
    \/ Send

Spec == Init /\ [][Next]_vars

\* Two of the routes under NumThreads concurrent request threads.
ConcurrentFiles == {NoFile, Dataset(<<>>, TRUE), Dataset(SmallBag, TRUE)}

InitConcurrent ==
    /\ file \in ConcurrentFiles
    /\ crime_data = None
    /\ loads = 0
    /\ pc = [p \in 1..NumThreads |-> "idle"]
    /\ endpoint = [p \in 1..NumThreads |-> "none"]
    /\ resp = None
    /\ sent = None
    /\ df = Dataset(<<>>, TRUE)
    /\ step = "idle"
    /\ tier1 = "pending"
    /\ tier = -1
    /\ trend_results = NoResults
    /\ response = NoResults
    /\ query = NoRequest
    /\ view = "copy"

NextConcurrent ==
    \/ \E p \in DOMAIN pc, e \in {"crime-data", "crime-trends"} : Enter(p, e)
    \/ \E p \in DOMAIN pc : LoadData(p)
    \/ \E p \in DOMAIN pc : GetCrimeData(p)
    \/ \E p \in DOMAIN pc : GetCrimeTrends(p)
    \/ AnalyzeCrimeTrends
    \/ FallbackMonthOverMonth
    \/ FallbackFrequency
    \/ CapTrendResults
    \/ \E p \in DOMAIN pc : JsonifyTrends(p)
    \/ Send

SpecConcurrent == InitConcurrent /\ [][NextConcurrent]_vars

\* The analytic routes called again and again by a client that compares each
\* response with the one before.  The files: one whose trends are year over
\* year, and one with a row more than get_arrest_prediction samples.
RepeatFiles ==
    { Dataset((ApiRow(TypeA, 2023, 12, 1, TRUE) :> 1) @@ (ApiRow(TypeA, 2024, 1, 1, FALSE) :> SignificanceFloor), TRUE),
      Dataset((ApiRow(TypeA, 2024, 1, 1, FALSE) :> PredictionSample) @@ (ApiRow(TypeB, 2024, 1, 2, TRUE) :> 1), TRUE) }

InitRepeat ==
    /\ file \in RepeatFiles
    /\ crime_data = None
    /\ loads = 0
    /\ pc = [p \in {1} |-> "idle"]
    /\ endpoint = [p \in {1} |-> "none"]
    /\ resp = None
    /\ sent = None
    /\ df = Dataset(<<>>, TRUE)
    /\ step = "idle"
    /\ tier1 = "pending"
    /\ tier = -1
    /\ trend_results = NoResults
    /\ response = NoResults
    /\ query = NoRequest
    /\ view = "copy"

NextRepeat ==
    \/ \E p \in DOMAIN pc, e \in {"clusters", "arrest-prediction", "crime-trends"} : Enter(p, e)
    \/ \E p \in DOMAIN pc : LoadData(p)
    \/ \E p \in DOMAIN pc : GetClusters(p)
    \/ \E p \in DOMAIN pc : GetArrestPrediction(p)
    \/ \E p \in DOMAIN pc : GetCrimeTrends(p)
    \/ AnalyzeCrimeTrends
    \/ FallbackMonthOverMonth
    \/ FallbackFrequency
    \/ CapTrendResults
    \/ \E p \in DOMAIN pc : JsonifyTrends(p)
    \/ Remember

SpecRepeat == InitRepeat /\ [][NextRepeat]_vars

\* The trend engine alone, on every filtered dataset of the bounds.
InitTrends ==
    /\ df \in TrendDatasets
    /\ step = "start"
    /\ tier1 = "pending"
    /\ tier = -1
    /\ trend_results = NoResults
    /\ response = NoResults
    /\ query = NoRequest
    /\ view = "copy"
    /\ file = None
    /\ crime_data = None
    /\ loads = 0
    /\ pc = [p \in {1} |-> "idle"]
    /\ endpoint = [p \in {1} |-> "none"]
    /\ resp = None
    /\ sent = None

NextTrends ==
    \/ AnalyzeCrimeTrends
    \/ FallbackMonthOverMonth
    \/ FallbackFrequency
    \/ CapTrendResults

SpecTrends == InitTrends /\ [][NextTrends]_vars

\* The trend engine on a dataset of MinTypesForRecency types whose rows all
\* fall in one calendar month, type number i with i rows.
FrequencyBag ==
    [r \in { Row(t, 2024, 1, 1, 1) : t \in ManyTypes } |->
        CHOOSE i \in 1..Len(DigitChars) : DigitChars[i] = r.type[2]]

InitFrequency ==
    /\ df = Dataset(FrequencyBag, TRUE)
    /\ step = "start"
    /\ tier1 = "pending"
    /\ tier = -1
    /\ trend_results = NoResults
    /\ response = NoResults
    /\ query = NoRequest
    /\ view = "copy"
    /\ file = None
    /\ crime_data = None
    /\ loads = 0
    /\ pc = [p \in {1} |-> "idle"]
    /\ endpoint = [p \in {1} |-> "none"]
    /\ resp = None
    /\ sent = None

SpecFrequency == InitFrequency /\ [][NextTrends]_vars

\* ------------------------------------------------------------- the claims
Returned == step \in {"returned", "done"}

\* C1: every avg_monthly_change of the response of GET /api/crime-trends, in
\* both lists and whichever tier produced it, is finite and within
\* [-40.0, 40.0].
C1_ResponseWithinCap ==
    step = "done" =>
        \A list \in {response.increasing_crimes, response.decreasing_crimes} :
            \A i \in 1..Len(list) :
                /\ IsFinite(Changes(list)[i])
                /\ FGe(Changes(list)[i], Int2F(-40))
                /\ FLe(Changes(list)[i], Int2F(40))

\* C2: in the final response every entry of the increasing list is >= 0 and
\* every entry of the decreasing list is <= 0.
C2_ResponseSigns ==
    step = "done" =>
        /\ \A i \in 1..Len(response.increasing_crimes) :
               FGe(Changes(response.increasing_crimes)[i], Int2F(0))
        /\ \A i \in 1..Len(response.decreasing_crimes) :
               FLe(Changes(response.decreasing_crimes)[i], Int2F(0))

\* C3: every result of analyze_crime_trends has at most 5 entries in each
\* list, the increasing list with the largest increase first and the
\* decreasing list with the largest decrease first.
C3_ListsShortAndOrdered ==
    Returned =>
        /\ Len(trend_results.increasing_crimes) <= 5
        /\ Len(trend_results.decreasing_crimes) <= 5
        /\ \A i, j \in 1..Len(trend_results.increasing_crimes) :
               i < j => FGe(Changes(trend_results.increasing_crimes)[i],
                            Changes(trend_results.increasing_crimes)[j])
        /\ \A i, j \in 1..Len(trend_results.decreasing_crimes) :
               i < j => FLe(Changes(trend_results.decreasing_crimes)[i],
                            Changes(trend_results.decreasing_crimes)[j])

\* x is `tenths`/10 to one decimal place: |x - tenths/10| <= 0.05.
About(x, tenths) ==
    /\ FGe(FMul(x, Int2F(20)), Int2F(2 * tenths - 1))
    /\ FLe(FMul(x, Int2F(20)), Int2F(2 * tenths + 1))

\* The value the year-over-year result gives crime type t.
Tier1Value(t) ==
    LET list == trend_results.increasing_crimes
        i == CHOOSE k \in 1..Len(list) : list[k].crime_type = t
    IN  list[i].avg_monthly_change

\* Every value of a year-over-year result is
\* (latest_count - previous_count) / (previous_count + 1) * 100.
Tier1FollowsFormula ==
    (Returned /\ tier = 1) =>
        \A list \in {trend_results.increasing_crimes, trend_results.decreasing_crimes} :
            \A i \in 1..Len(list) :
                LET t == list[i].crime_type
                    l == SumCounts(df.rows, {r \in DOMAIN df.rows :
                                               r.type = t /\ r.year = SetMax(Years(df))})
                    p == SumCounts(df.rows, {r \in DOMAIN df.rows :
                                               r.type = t /\ r.year = SetMax(Years(df) \ {SetMax(Years(df))})})
                    v == list[i].avg_monthly_change
                IN  v[1] * (p + 1) = (l - p) * 100 * v[2]

OnExample == Returned /\ tier = 1 /\ df.rows = ExampleBag

\* C4 as claimed: the formula, and on the counts A 10 then 15, B 20 then 5
\* it gives A about 23.8 and B about -71.4.
C4_FormulaAndExample ==
    /\ Tier1FollowsFormula
    /\ OnExample => (About(Tier1Value(TypeA), 238) /\ About(Tier1Value(TypeB), -714))

\* C4 as amended: the formula, and on those counts it gives A about 45.5
\* ((15 - 10) / (10 + 1) * 100) and B about -71.4.
C4_FormulaAndExampleAmended ==
    /\ Tier1FollowsFormula
    /\ OnExample => (About(Tier1Value(TypeA), 455) /\ About(Tier1Value(TypeB), -714))

C4_Witness == OnExample /\ step = "done"

\* With 2 or more years the fallback is entered only when the year-over-year
\* lists are both empty (no type reaches the floor) or the branch raised.
FallbackOnlyWhenEmptyOrFailed ==
    (Cardinality(Years(df)) >= 2 /\ (step \in {"fallback", "final"} \/ (Returned /\ tier # 1))) =>
        \/ ~df.dates_ok
        \/ \A t \in Types(df) :
               \A y \in {SetMax(Years(df)), SetMax(Years(df) \ {SetMax(Years(df))})} :
                   SumCounts(df.rows, {r \in DOMAIN df.rows : r.type = t /\ r.year = y}) < 5

\* C5 as claimed: with fewer than 2 years the result never comes from the
\* year-over-year branch but always from Tier 2 or Tier 3; with 2 or more
\* years the fallback is entered only on empty lists or a failure.
C5_SingleYearUsesFallback ==
    /\ (Returned /\ Cardinality(Years(df)) < 2) => tier \in {2, 3}
    /\ FallbackOnlyWhenEmptyOrFailed

\* C5 as amended: with fewer than 2 years the result never comes from the
\* year-over-year branch: it comes from Tier 2 or Tier 3, or it is the error
\* value with both lists empty when the fallback itself raised.
C5_SingleYearNeverTier1 ==
    /\ (Returned /\ Cardinality(Years(df)) < 2) =>
           \/ tier \in {2, 3}
           \/ /\ tier = 0
              /\ "error" \in DOMAIN trend_results
              /\ trend_results.increasing_crimes = <<>>
              /\ trend_results.decreasing_crimes = <<>>
    /\ FallbackOnlyWhenEmptyOrFailed

C5_Witness ==
    /\ Returned /\ Cardinality(Years(df)) = 1 /\ tier = 2 /\ df.dates_ok

\* C6: the year-over-year branch keeps a crime type for its two lists if and
\* only if the type has at least 5 rows in the latest year or at least 5 in
\* the previous one (with at most 5 kept types every kept type is listed).
C6_SignificanceFloor ==
    (step \in {"fallback", "final", "returned", "done"} /\ df.dates_ok
        /\ Cardinality(Years(df)) >= 2 /\ Cardinality(Types(df)) <= 5) =>
        LET ly == SetMax(Years(df))
            py == SetMax(Years(df) \ {ly})
            n(t, y) == SumCounts(df.rows, {r \in DOMAIN df.rows : r.type = t /\ r.year = y})
            meets(t) == n(t, ly) >= 5 \/ n(t, py) >= 5
        IN  IF tier1 = "returned"
            THEN \A t \in Types(df) :
                    /\ (t \in ListTypes(trend_results.increasing_crimes)) = meets(t)
                    /\ (t \in ListTypes(trend_results.decreasing_crimes)) = meets(t)
            ELSE \A t \in Types(df) : ~meets(t)

\* A type with exactly 5 rows in one year (fewer in the other) is listed
\* while a type with at most 4 in both is not.
C6_Witness ==
    /\ Returned /\ tier = 1
    /\ \E t, u \in Types(df) :
         /\ SumCounts(df.rows, {r \in DOMAIN df.rows : r.type = t /\ r.year = SetMax(Years(df))}) = 5
         /\ SumCounts(df.rows, {r \in DOMAIN df.rows : r.type = t /\ r.year # SetMax(Years(df))}) < 5
         /\ t \in ListTypes(trend_results.increasing_crimes)
         /\ u \notin ListTypes(trend_results.increasing_crimes)
         /\ u \notin ListTypes(trend_results.decreasing_crimes)

\* C7: every endpoint answers every internal failure (a failing load, a
\* filter that does not parse, a failure inside the analytic call) with a
\* well-formed JSON document; no response is the server's answer to an
\* exception that left the handler.
C7_EveryFailureIsJson ==
    resp # None => resp.kind = "json"

\* C8: on the endpoints that take a year or a district filter, a year or
\* district that is no integer ends the request with HTTP 400 in a JSON error
\* body, and no analytic stage has run.
C8_BadFilterIs400 ==
    (/\ resp # None
     /\ resp.endpoint \in {"crime-data", "heatmap-data", "clusters",
                           "arrest-prediction", "crime-trends"}
     /\ resp.bad_filter) =>
        /\ resp.kind = "json"
        /\ resp.status = 400
        /\ resp.error
        /\ ~resp.analytic

\* C9: no number of any endpoint's JSON response is written as NaN, Infinity
\* or -Infinity.
C9_NoNonFiniteToken ==
    (resp # None /\ resp.kind = "json") =>
        \A i \in 1..Len(resp.numbers) :
            resp.numbers[i].token \notin {"NaN", "Infinity", "-Infinity"}

\* C10: whatever the interleaving of the requests, load_data() completes and
\* is stored in the cache at most once.
C10_LoadedAtMostOnce ==
    loads <= 1

\* C11: once loaded, the cached dataset keeps the rows and the columns it was
\* loaded with, whatever requests follow: the columns the analytic code
\* writes go to the request's copy only, also when no filter is given.
C11_CacheUnchanged ==
    crime_data # None => crime_data = file

\* The trend engine has written Month and Quarter into the frame of a request
\* without any filter, and the cache is there to be compared.
C11_Witness ==
    /\ crime_data # None
    /\ step = "done" /\ query = NoRequest
    /\ {"Month", "Quarter"} \subseteq df.columns
    /\ df.rows = crime_data.rows

\* C12: two calls of the same analytic route (clusters, arrest-prediction, or
\* crime-trends answered from Tier 1 or Tier 2) with the same filters on the
\* same cached dataset give the same output, the rows analysed included.
C12_SameRequestSameOutput ==
    (/\ resp # None /\ sent # None
     /\ resp.endpoint \in {"clusters", "arrest-prediction", "crime-trends"}
     /\ resp.endpoint = sent.endpoint
     /\ resp.request = sent.request
     /\ resp.endpoint = "crime-trends" => (resp.tier \in {1, 2} /\ sent.tier \in {1, 2})) =>
        resp = sent

\* C13: when the year-over-year branch raises, analyze_crime_trends returns
\* what the fallback cascade gives on the same dataset; it returns the error
\* value (a message, both lists empty) only when the cascade raised as well
\* (10 or more types whose dates never parsed); every step of it has an
\* outcome, and what it returns always has both lists.
C13_FailureRunsCascade ==
    /\ (step = "start" /\ df.dates_ok /\ Tier1Applies(df)) => Tier1Results(df) # {}
    /\ (step = "final" /\ ~Tier3Raises(df)) => Tier3Results(df) # {}
    /\ Returned =>
           /\ {"increasing_crimes", "decreasing_crimes"} \subseteq DOMAIN trend_results
           /\ ("error" \in DOMAIN trend_results) =
                  (~df.dates_ok /\ Cardinality({r.type : r \in DOMAIN df.rows}) >= 10)
           /\ "error" \in DOMAIN trend_results =>
                  /\ trend_results.increasing_crimes = <<>>
                  /\ trend_results.decreasing_crimes = <<>>
           /\ (tier1 = "raised" /\ "error" \notin DOMAIN trend_results) =>
                  /\ tier \in {2, 3}
                  /\ df.rows # <<>> => trend_results.increasing_crimes # <<>>

\* The year-over-year branch raised and the cascade gave a Tier 3 result.
C13_Witness ==
    /\ step = "done" /\ tier1 = "raised" /\ tier = 3
    /\ trend_results.increasing_crimes # <<>>

\* C14: on every dataset on which the month-over-month branch runs, each
\* consecutive pair of months it compares is in time order: all rows of the
\* first month of the pair are earlier than all rows of the second.
C14_MonthsWalkedInTimeOrder ==
    (/\ step \in {"final", "returned", "done"}
     /\ tier1 \in {"skipped", "empty"}
     /\ df.dates_ok /\ Cardinality({r.month : r \in DOMAIN df.rows}) >= 2) =>
        LET idx == MonthIndex(df)
        IN  \A i \in 1..(Len(idx) - 1) :
                \A r, q \in DOMAIN df.rows :
                    (r.month = idx[i] /\ q.month = idx[i + 1]) =>
                        r.year * 12 + r.month < q.year * 12 + q.month

\* The month-over-month branch was reached with 2 or more months to compare.
Tier2Ran ==
    /\ step \in {"final", "returned", "done"}
    /\ tier1 \in {"skipped", "empty"}
    /\ df.dates_ok /\ Cardinality({r.month : r \in DOMAIN df.rows}) >= 2

\* C15: the month-over-month branch lists the largest and the smallest
\* average changes clamped to [-50, 50] and keeps those of magnitude above
\* 0.1; it returns if and only if an entry remains in one of the lists, every
\* value it returns is within [-50, 50] with magnitude above 0.1, and with
\* both lists empty, or fewer than 2 months, the final fallback runs.  (With
\* at most 5 types the 5 largest and the 5 smallest are all of them.)
C15_Tier2ClampAndFloor ==
    LET types == {r.type : r \in DOMAIN df.rows}
        rises(t) == FGt(AvgChange(df, t), Rat(1, 10))
        falls(t) == FLt(AvgChange(df, t), Rat(-1, 10))
    IN  /\ (Tier2Ran /\ Cardinality(types) <= 5) =>
               /\ (tier = 2) = (\E t \in types : rises(t) \/ falls(t))
               /\ tier # 2 => (step = "final" \/ tier \in {0, 3})
        /\ (step \in {"final", "returned", "done"} /\ tier1 \in {"skipped", "empty"}
                /\ Cardinality({r.month : r \in DOMAIN df.rows}) < 2) => tier # 2
        /\ (Returned /\ tier = 2) =>
               /\ trend_results.increasing_crimes # <<>> \/ trend_results.decreasing_crimes # <<>>
               /\ Len(trend_results.increasing_crimes) <= 5
               /\ Len(trend_results.decreasing_crimes) <= 5
               /\ \A i \in 1..Len(trend_results.increasing_crimes) :
                      LET e == trend_results.increasing_crimes[i]
                      IN  /\ FGt(e.avg_monthly_change, Rat(1, 10))
                          /\ FLe(e.avg_monthly_change, Int2F(50))
                          /\ Cardinality(types) <= 5 =>
                                 e.avg_monthly_change = PyMin(AvgChange(df, e.crime_type), Int2F(50))
               /\ \A i \in 1..Len(trend_results.decreasing_crimes) :
                      LET e == trend_results.decreasing_crimes[i]
                      IN  /\ FLt(e.avg_monthly_change, Rat(-1, 10))
                          /\ FGe(e.avg_monthly_change, Int2F(-50))
                          /\ Cardinality(types) <= 5 =>
                                 e.avg_monthly_change = PyMax(AvgChange(df, e.crime_type), Int2F(-50))
               /\ Cardinality(types) <= 5 =>
                      /\ ListTypes(trend_results.increasing_crimes) = {t \in types : rises(t)}
                      /\ ListTypes(trend_results.decreasing_crimes) = {t \in types : falls(t)}

\* A month-over-month result with a value clamped to 50 and a type left out
\* because its average change is below the floor.
C15_Witness ==
    /\ step = "done" /\ tier = 2
    /\ \E i \in 1..Len(trend_results.increasing_crimes) :
           /\ trend_results.increasing_crimes[i].avg_monthly_change = Int2F(50)
           /\ FGt(AvgChange(df, trend_results.increasing_crimes[i].crime_type), Int2F(50))
    /\ \E t \in {r.type : r \in DOMAIN df.rows} :
           /\ t \notin ListTypes(trend_results.increasing_crimes)
           /\ t \notin ListTypes(trend_results.decreasing_crimes)

\* x lies between 0.8 and 1.2 times base (base of either sign).
WithinFifth(x, base) ==
    /\ FLe(PyMin(FMul(base, Rat(4, 5)), FMul(base, Rat(6, 5))), x)
    /\ FLe(x, PyMax(FMul(base, Rat(4, 5)), FMul(base, Rat(6, 5))))

\* C16: with 10 or more types and an empty partition (the most recent calendar
\* month or the rest), the final fallback returns the linear synthesis of the
\* branch for fewer than 10 types: the i-th (from 0) of the 5 most frequent
\* types gets 15 - 2i and the i-th of the 5 least frequent gets -5 - 2i, each
\* times a factor in [0.8, 1.2].
C16_EmptyPartitionIsLinearSynthesis ==
    (/\ Returned /\ tier = 3
     /\ Cardinality({r.type : r \in DOMAIN df.rows}) >= 10
     /\ \/ \A r \in DOMAIN df.rows : r.month = current_month(df)
        \/ \A r \in DOMAIN df.rows : r.month # current_month(df)) =>
        /\ \A i \in 1..Len(trend_results.increasing_crimes) :
               WithinFifth(trend_results.increasing_crimes[i].avg_monthly_change,
                           Int2F(15 - 2 * (i - 1)))
        /\ \A i \in 1..Len(trend_results.decreasing_crimes) :
               WithinFifth(trend_results.decreasing_crimes[i].avg_monthly_change,
                           Int2F(-5 - 2 * (i - 1)))

\* C17: in a result returned by analyze_crime_trends, whichever tier produced
\* it and however few types the data has, no crime type is in both lists.
C17_ListsDisjoint ==
    Returned =>
        ListTypes(trend_results.increasing_crimes)
            \cap ListTypes(trend_results.decreasing_crimes) = {}

=============================================================================
